---------------------------- MODULE Spec2Model ----------------------------
(***************************************************************************)
(* A model of the HTTP request-line and response parsers of                *)
(* inc/request_line.hpp and inc/response.hpp.                              *)
(*                                                                         *)
(* A std::string is a sequence of characters; a character is a one-letter  *)
(* TLA+ string.  Positions are 0-based as in C++.  std::string::npos is    *)
(* the size_t value 2^64-1; it is written -1 here, so that the unsigned    *)
(* wrap-around of "npos + 1" and "npos + 2" (0 and 1) is plain integer     *)
(* addition, and a negative position stands for one beyond every string.   *)
(***************************************************************************)
EXTENDS Integers, Sequences, FiniteSets, TLC

VARIABLES
  phase,     \* where the caller stands: "idle", "constructed", "thrown", ...
  input,     \* how the buffer handed to the constructor was put together
  request,   \* the caller's request buffer (Request_Line's argument)
  method_,   \* Request_Line::method_
  uri_,      \* Request_Line::uri_
  version_,  \* Request_Line::version_
  thrown,    \* the exception that left the last constructor, or "none"
  wire,      \* the last result of Request_Line::to_string()
  again,     \* a second Request_Line, constructed from wire
  response,  \* the caller's response buffer (Response's argument)
  res        \* the Response object: status line, header fields, body

vars == <<phase, input, request, method_, uri_, version_, thrown, wire, again,
          response, res>>

(***************************************************************************)
(* Characters                                                              *)
(***************************************************************************)
SP == " "
HT == "\t"
VT == "<VT>"
FF == "\f"
CR == "\r"
LF == "\n"
CRLF == <<CR, LF>>

Digits == <<"0", "1", "2", "3", "4", "5", "6", "7", "8", "9">>
DigitSet == {Digits[i] : i \in 1..10}
DigitVal(c) == (CHOOSE i \in 1..10 : Digits[i] = c) - 1

\* the characters the constructor strips from the front of the buffer
LeadingBlanks == {FF, HT, VT, SP}

\* the characters std::isspace accepts, which std::stoul skips
IsSpaceSet == {SP, HT, LF, VT, FF, CR}

(***************************************************************************)
(* Bounds of the model                                                     *)
(***************************************************************************)
MaxLead == 1      \* leading blanks put before a request line
MaxUriTail == 3   \* characters of a request URI after its "/"
MaxVer == 2       \* largest canonical version number fed (besides 10)
MaxExtra == 2     \* an unstructured buffer is at most 16 + MaxExtra long

(***************************************************************************)
(* Program constants                                                       *)
(***************************************************************************)
Npos == -1
MinRequestLength == 16
OK == 200
DefaultLimit == 100

(***************************************************************************)
(* std::string                                                             *)
(***************************************************************************)
Min(S) == CHOOSE x \in S : \A y \in S : x <= y
Max(S) == CHOOSE x \in S : \A y \in S : x >= y

\* s.find(pat): the position of the first occurrence of pat, or npos
Find(s, pat) ==
  LET hits == {i \in 0..(Len(s) - Len(pat)) :
                 \A j \in 1..Len(pat) : s[i + j] = pat[j]}
  IN IF hits = {} THEN Npos ELSE Min(hits)

\* s.find_first_of(chars)
FindFirstOf(s, chars) ==
  LET hits == {i \in 0..(Len(s) - 1) : s[i + 1] \in chars}
  IN IF hits = {} THEN Npos ELSE Min(hits)

\* s.find_last_of(chars)
FindLastOf(s, chars) ==
  LET hits == {i \in 0..(Len(s) - 1) : s[i + 1] \in chars}
  IN IF hits = {} THEN Npos ELSE Max(hits)

\* s.find_first_not_of(chars)
FindFirstNotOf(s, chars) ==
  LET hits == {i \in 0..(Len(s) - 1) : s[i + 1] \notin chars}
  IN IF hits = {} THEN Npos ELSE Min(hits)

\* s.substr(pos, count) throws std::out_of_range when pos > s.size()
SubstrThrows(s, pos) == pos < 0 \/ pos > Len(s)

\* s.substr(pos, count), for a pos that does not throw; the count is cut to
\* the characters there are, and npos (a huge count) takes them all
Substr(s, pos, count) ==
  LET avail == Len(s) - pos
      n == IF count < 0 \/ count > avail THEN avail ELSE count
  IN SubSeq(s, pos + 1, pos + n)

(***************************************************************************)
(* unsigned: a 32-bit number, kept as two 16-bit halves so that the        *)
(* arithmetic modulo 2^32 of static_cast<unsigned> is exact.               *)
(***************************************************************************)
Half == 2^16

U32(n) == [hi |-> (n \div Half) % Half, lo |-> n % Half]

\* (10 * v + d) modulo 2^32
MulAdd10(v, d) ==
  LET lo == 10 * v.lo + d
      hi == 10 * v.hi + (lo \div Half)
  IN [hi |-> hi % Half, lo |-> lo % Half]

\* v divided by ten: the quotient q and the remainder r
DivMod10(v) ==
  LET mid == (v.hi % 10) * Half + v.lo
  IN [q |-> [hi |-> v.hi \div 10, lo |-> mid \div 10], r |-> mid % 10]

(***************************************************************************)
(* std::stoul(str), base 10: skips leading white space, takes an optional  *)
(* "+", then the longest run of decimal digits, and ignores what follows.  *)
(* No digit: std::invalid_argument; a number above 2^64-1:                 *)
(* std::out_of_range.  The callers cast the result to unsigned, so the     *)
(* value is computed modulo 2^32.  No buffer of this model carries a "-",  *)
(* which std::stoul would accept and negate.                               *)
(***************************************************************************)
SkipSpace(s) ==
  LET p == FindFirstNotOf(s, IsSpaceSet)
  IN IF p = Npos THEN <<>> ELSE SubSeq(s, p + 1, Len(s))

SkipSign(s) == IF s # <<>> /\ s[1] = "+" THEN Tail(s) ELSE s

DigitRun(s) ==
  LET p == FindFirstNotOf(s, DigitSet)
  IN IF p = Npos THEN s ELSE SubSeq(s, 1, p)

StoulDigits(s) == DigitRun(SkipSign(SkipSpace(s)))

RECURSIVE DecimalValue(_)
DecimalValue(ds) ==
  IF ds = <<>> THEN U32(0)
  ELSE MulAdd10(DecimalValue(SubSeq(ds, 1, Len(ds) - 1)), DigitVal(ds[Len(ds)]))

\* 2^64-1, the largest unsigned long
ULongMaxDigits ==
  <<"1", "8", "4", "4", "6", "7", "4", "4", "0", "7",
    "3", "7", "0", "9", "5", "5", "1", "6", "1", "5">>

AboveULongMax(ds) ==
  LET p == FindFirstNotOf(ds, {"0"})
      sig == IF p = Npos THEN <<>> ELSE SubSeq(ds, p + 1, Len(ds))
      n == Len(ULongMaxDigits)
  IN \/ Len(sig) > n
     \/ /\ Len(sig) = n
        /\ \E i \in 1..n :
             /\ \A j \in 1..(i - 1) : sig[j] = ULongMaxDigits[j]
             /\ DigitVal(sig[i]) > DigitVal(ULongMaxDigits[i])

\* the exception std::stoul(s) throws, or "none"
StoulThrows(s) ==
  IF StoulDigits(s) = <<>> THEN "invalid_argument"
  ELSE IF AboveULongMax(StoulDigits(s)) THEN "out_of_range"
  ELSE "none"

\* static_cast<unsigned>(std::stoul(s))
Stoul(s) == DecimalValue(StoulDigits(s))

(***************************************************************************)
(* Collaborators of Request_Line: Method and URI are built from a token    *)
(* string and keep it; Version holds two unsigned numbers and prints as    *)
(* "HTTP/<major>.<minor>".                                                 *)
(***************************************************************************)
DefaultMethod == <<"G", "E", "T">>
DefaultUri == <<"/">>
Version(maj, min) == [major |-> maj, minor |-> min]
DefaultVersion == Version(U32(1), U32(1))

\* an unsigned written to a stream
RECURSIVE Decimal(_)
Decimal(v) ==
  IF v.hi = 0 /\ v.lo < 10 THEN <<Digits[v.lo + 1]>>
  ELSE Decimal(DivMod10(v).q) \o <<Digits[DivMod10(v).r + 1]>>

VersionString(v) ==
  <<"H", "T", "T", "P", "/">> \o Decimal(v.major) \o <<".">> \o Decimal(v.minor)

(***************************************************************************)
(* Request_Line::Request_Line(Request&&), statement by statement           *)
(***************************************************************************)
\* the guard with its limit off by one
TooShortOffByOne(req) == Len(req) = 0 \/ Len(req) < MinRequestLength - 1

\* line 148: the guard on the buffer's size
TooShort(req) == Len(req) = 0 \/ Len(req) < MinRequestLength

\* line 152: request.substr(request.find_first_not_of("\f\t\v "))
StartPos(req) == FindFirstNotOf(req, LeadingBlanks)
StartOf(req) == Substr(req, StartPos(req), Npos)

\* line 154: start.substr(0, start.find("\r\n"))
LineOf(start) == Substr(start, 0, Find(start, CRLF))

\* line 156: rl.substr(0, rl.find_first_of(" "))
MethodOf(rl) == Substr(rl, 0, FindFirstOf(rl, {SP}))

\* line 158: rl.substr(rl.find_first_of(" ") + 1)
AfterMethod(rl) == Substr(rl, FindFirstOf(rl, {SP}) + 1, Npos)

\* the URI cut at the next space instead of the last one
UriOfFirstSpace(rl) == Substr(rl, 0, FindFirstOf(rl, {SP}))

\* line 160: rl.substr(0, rl.find_last_of(" "))
UriOf(rl) == Substr(rl, 0, FindLastOf(rl, {SP}))

\* line 162: rl.substr(rl.find_last_of(" ") + 1)
VersionToken(rl) == Substr(rl, FindLastOf(rl, {SP}) + 1, Npos)

\* line 164: rl.substr(rl.find("/") + 1, rl.find(".")): the second argument
\* is a count, and the code passes the position of the "."
MajorText(tok) == Substr(tok, Find(tok, <<"/">>) + 1, Find(tok, <<".">>))

\* the minor number taken from the "/" instead of the "."
MinorTextFromSlash(tok) == Substr(tok, Find(tok, <<"/">>) + 1, Npos)

\* line 165: rl.substr(rl.find(".") + 1)
MinorText(tok) == Substr(tok, Find(tok, <<".">>) + 1, Npos)

\* the line consumed without the second character of its terminator
ConsumeOffByOne(req) == Substr(req, Find(req, CRLF) + 1, Npos)

\* line 172: request.substr(request.find("\r\n") + 2)
Consume(req) == Substr(req, Find(req, CRLF) + 2, Npos)

\* What the constructor leaves: the exception that left it ("none" when it
\* returned), the members as last assigned, and the caller's buffer.
Outcome(t, m, u, v, r) ==
  [thrown |-> t, method |-> m, uri |-> u, version |-> v, request |-> r]

RequestLine(req) ==
  IF TooShort(req)
  THEN Outcome("none", DefaultMethod, DefaultUri, DefaultVersion, req)
  ELSE IF SubstrThrows(req, StartPos(req))
  THEN Outcome("out_of_range", DefaultMethod, DefaultUri, DefaultVersion, req)
  ELSE
    LET rl0 == LineOf(StartOf(req))
        m == MethodOf(rl0)
        rl1 == AfterMethod(rl0)
        u == UriOf(rl1)
        tok == VersionToken(rl1)
        major == MajorText(tok)
        minor == MinorText(tok)
    IN IF StoulThrows(major) # "none"
       THEN Outcome(StoulThrows(major), m, u, DefaultVersion, req)
       ELSE IF StoulThrows(minor) # "none"
       THEN Outcome(StoulThrows(minor), m, u, DefaultVersion, req)
       ELSE Outcome("none", m, u, Version(Stoul(major), Stoul(minor)),
                    Consume(req))

\* the rendering ended by a bare line feed
to_string_LF(m, u, v) == m \o <<SP>> \o u \o <<SP>> \o VersionString(v) \o <<LF>>

\* Request_Line::operator std::string
to_string(m, u, v) == m \o <<SP>> \o u \o <<SP>> \o VersionString(v) \o CRLF

(***************************************************************************)
(* The buffers the caller hands to Request_Line.  A buffer is either put   *)
(* together as  lead METHOD SP URI SP TOKEN [CRLF rest]  or is one         *)
(* character repeated; "input" records which.                              *)
(***************************************************************************)
Blanks(n, c) == [i \in 1..n |-> c]

Leads == {Blanks(n, c) : n \in 0..MaxLead, c \in LeadingBlanks}

Methods == {<<"G", "E", "T">>, <<"M">>}

Uris == {<<"/">> \o t : t \in UNION {[1..n -> {"a", SP, "."}] : n \in 0..MaxUriTail}}

\* the numbers written in canonical decimal form
CanonNumbers == 0..MaxVer \cup {10}

MajorTexts ==
  {Decimal(U32(n)) : n \in CanonNumbers}
    \cup {<<"x">>, <<"1", "x">>, <<>>}

MinorTexts ==
  {Decimal(U32(n)) : n \in CanonNumbers}
    \cup {<<"x">>, <<"1", "x">>, <<"1", ".", "5">>, <<>>}

\* version tokens with neither "/" nor "."
BareTokens == {<<"H", "T", "T", "P", "1", "1">>, <<"1", "1">>}

Rests == {<<>>, <<"b", CR, LF, "c">>}

FillChars == {SP, HT, "a", "1"}

HttpToken(a, b) == <<"H", "T", "T", "P", "/">> \o a \o <<".">> \o b

LineInput(lead, m, u, shaped, a, b, tok, crlf, rest) ==
  [kind |-> "line", lead |-> lead, method |-> m, uri |-> u,
   shaped |-> shaped, major |-> a, minor |-> b, token |-> tok,
   crlf |-> crlf, rest |-> rest,
   buffer |-> lead \o m \o <<SP>> \o u \o <<SP>> \o tok
                \o (IF crlf THEN CRLF \o rest ELSE <<>>)]

FillerInput(c, n) ==
  [kind |-> "filler", lead |-> <<>>, method |-> <<>>, uri |-> <<>>,
   shaped |-> FALSE, major |-> <<>>, minor |-> <<>>, token |-> <<>>,
   crlf |-> FALSE, rest |-> <<>>, buffer |-> Blanks(n, c)]

NoInput == FillerInput(SP, 0)

\* Response, as default constructed (response.hpp line 48)
DefaultResponse ==
  [code |-> OK, version |-> DefaultVersion, headers |-> <<>>, body |-> <<>>]

(***************************************************************************)
(* The request-line state machine: the caller constructs a Request_Line    *)
(* from a buffer, renders it, and parses the rendering again.              *)
(***************************************************************************)
Init ==
  /\ phase = "idle"
  /\ input = NoInput
  /\ request = <<>>
  /\ method_ = DefaultMethod
  /\ uri_ = DefaultUri
  /\ version_ = DefaultVersion
  /\ thrown = "none"
  /\ wire = <<>>
  /\ again = Outcome("none", DefaultMethod, DefaultUri, DefaultVersion, <<>>)
  /\ response = <<>>
  /\ res = DefaultResponse

\* Request_Line rl{request};
Construct(in) ==
  \E o \in {RequestLine(in.buffer)} :
     /\ phase' = IF o.thrown = "none" THEN "constructed" ELSE "thrown"
     /\ input' = in
     /\ request' = o.request
     /\ method_' = o.method
     /\ uri_' = o.uri
     /\ version_' = o.version
     /\ thrown' = o.thrown
     /\ UNCHANGED <<wire, again, response, res>>

ConstructFromLine ==
  /\ phase = "idle"
  /\ \E lead \in Leads, m \in Methods, u \in Uris,
        a \in MajorTexts, b \in MinorTexts :
          \/ \E rest \in Rests :
               Construct(LineInput(lead, m, u, TRUE, a, b, HttpToken(a, b),
                                   TRUE, rest))
          \/ Construct(LineInput(lead, m, u, TRUE, a, b, HttpToken(a, b),
                                 FALSE, <<>>))

ConstructFromBareToken ==
  /\ phase = "idle"
  /\ \E lead \in Leads, m \in Methods, u \in Uris, tok \in BareTokens,
        crlf \in BOOLEAN :
          Construct(LineInput(lead, m, u, FALSE, <<>>, <<>>, tok, crlf, <<>>))

ConstructFromFiller ==
  /\ phase = "idle"
  /\ \E c \in FillChars, n \in 0..(MinRequestLength + MaxExtra) :
       Construct(FillerInput(c, n))

\* wire = rl.to_string();
Serialize ==
  /\ phase = "constructed"
  /\ phase' = "serialized"
  /\ wire' = to_string(method_, uri_, version_)
  /\ UNCHANGED <<input, request, method_, uri_, version_, thrown, again,
                 response, res>>

\* Request_Line again{wire};
Reparse ==
  /\ phase = "serialized"
  /\ phase' = "reparsed"
  /\ again' = RequestLine(wire)
  /\ UNCHANGED <<input, request, method_, uri_, version_, thrown, wire,
                 response, res>>

Next ==
  \/ ConstructFromLine
  \/ ConstructFromBareToken
  \/ ConstructFromFiller
  \/ Serialize
  \/ Reparse

Spec == Init /\ [][Next]_vars

(***************************************************************************)
(* Collaborators of Response.  Status_line parses "VERSION CODE REASON"    *)
(* with the discipline of Request_Line and removes the line and its        *)
(* terminator from the buffer; Message keeps the header fields and the     *)
(* body, reads the fields from the lines up to the first empty line, and   *)
(* empties both on reset().                                                *)
(***************************************************************************)
ToInt(v) == v.hi * Half + v.lo

StatusOutcome(t, v, c, r) ==
  [thrown |-> t, version |-> v, code |-> c, response |-> r]

\* Status_line::Status_line(Response&&)
StatusLine(buf) ==
  IF TooShort(buf) THEN StatusOutcome("none", DefaultVersion, OK, buf)
  ELSE IF SubstrThrows(buf, StartPos(buf))
  THEN StatusOutcome("out_of_range", DefaultVersion, OK, buf)
  ELSE
    LET sl == LineOf(StartOf(buf))
        tok == Substr(sl, 0, FindFirstOf(sl, {SP}))
        rem == Substr(sl, FindFirstOf(sl, {SP}) + 1, Npos)
        code == Substr(rem, 0, FindFirstOf(rem, {SP}))
        major == MajorText(tok)
        minor == MinorText(tok)
        bad == {t \in {StoulThrows(major), StoulThrows(minor),
                       StoulThrows(code)} : t # "none"}
    IN IF bad # {}
       THEN StatusOutcome(CHOOSE t \in bad : TRUE, DefaultVersion, OK, buf)
       ELSE StatusOutcome("none", Version(Stoul(major), Stoul(minor)),
                          ToInt(Stoul(code)),
                          IF Find(buf, CRLF) = Npos THEN <<>>
                          ELSE Substr(buf, Find(buf, CRLF) + 2, Npos))

\* one header line "name: value" as a field
FieldOf(line) ==
  LET c == Find(line, <<":">>)
      v == Substr(line, c + 1, Npos)
      p == FindFirstNotOf(v, {SP})
  IN [name |-> Substr(line, 0, c),
      value |-> IF p = Npos THEN <<>> ELSE Substr(v, p, Npos)]

\* the lines of the header section: up to the first empty line
RECURSIVE HeaderLines(_)
HeaderLines(buf) ==
  IF buf = <<>> THEN <<>>
  ELSE LET e == Find(buf, <<LF>>)
           raw == Substr(buf, 0, e)
           line == IF raw # <<>> /\ raw[Len(raw)] = CR
                   THEN SubSeq(raw, 1, Len(raw) - 1) ELSE raw
       IN IF line = <<>> THEN <<>>
          ELSE <<line>> \o (IF e = Npos THEN <<>>
                            ELSE HeaderLines(Substr(buf, e + 1, Npos)))

\* Message::add_headers(data)
add_headers(buf) ==
  LET lines == HeaderLines(buf)
      fields == {i \in 1..Len(lines) : Find(lines[i], <<":">>) # Npos}
      pick[i \in 0..Len(lines)] ==
        IF i = 0 THEN <<>>
        ELSE IF i \in fields THEN Append(pick[i - 1], FieldOf(lines[i]))
        ELSE pick[i - 1]
  IN pick[Len(lines)]

(***************************************************************************)
(* Response                                                                *)
(***************************************************************************)
CRLFCRLF == <<CR, LF, CR, LF>>
LFLF == <<LF, LF>>

\* the body cut at the first bare "\n\n", the canonical separator not tried
BodyOfFirstNewlines(buf) ==
  IF Find(buf, LFLF) # Npos THEN Substr(buf, Find(buf, LFLF) + 2, Npos)
  ELSE <<>>

\* lines 154-159: the body is what follows the first "\r\n\r\n" of the
\* buffer or, when the buffer has none, its first "\n\n"
BodyOf(buf) ==
  IF Find(buf, CRLFCRLF) # Npos
  THEN Substr(buf, Find(buf, CRLFCRLF) + 4, Npos)
  ELSE IF Find(buf, LFLF) # Npos
  THEN Substr(buf, Find(buf, LFLF) + 2, Npos)
  ELSE <<>>

\* Response::Response(const Code, const Version)
ResponseWith(code, version) ==
  [code |-> code, version |-> version, headers |-> <<>>, body |-> <<>>]

\* Response::Response(T&& response, const Limit): what it leaves, given
\* the status line's outcome
ResponseFrom(sl, limit) ==
  IF sl.thrown # "none"
  THEN [thrown |-> sl.thrown, res |-> DefaultResponse]
  ELSE IF Len(add_headers(sl.response)) > limit
  THEN [thrown |-> "limit", res |-> DefaultResponse]
  ELSE [thrown |-> "none",
        res |-> [code |-> sl.code, version |-> sl.version,
                 headers |-> add_headers(sl.response),
                 body |-> BodyOf(sl.response)]]

\* Response::set_status_code
set_status_code(r, code) == [r EXCEPT !.code = code]

\* Message::reset
MessageReset(r) == [r EXCEPT !.headers = <<>>, !.body = <<>>]

\* Response::reset: Message::reset(), then set_status_code(OK)
reset(r) == set_status_code(MessageReset(r), OK)

(***************************************************************************)
(* The buffers the caller hands to Response: a status line ended by CRLF,  *)
(* header lines, an empty line and a body.  The header lines and the       *)
(* empty line end in CRLF, or all in a bare LF.                            *)
(***************************************************************************)
MaxHeaders == 2   \* header fields of a response

Codes == {OK, 404}
Versions == {DefaultVersion, Version(U32(1), U32(0))}

Field(i) == [name |-> <<"H", Digits[i]>>, value |-> <<"v", Digits[i]>>]
Fields(n) == [i \in 1..n |-> Field(i)]

Bodies ==
  {<<>>, <<"h", "i">>, <<"x", CR, LF, CR, LF, "y">>, <<"x", LF, LF, "y">>}

RECURSIVE HeaderText(_, _)
HeaderText(fs, eol) ==
  IF fs = <<>> THEN <<>>
  ELSE fs[1].name \o <<":", SP>> \o fs[1].value \o eol \o HeaderText(Tail(fs), eol)

ResponseInput(v, c, n, eol, body) ==
  [kind |-> "response", version |-> v, code |-> c, headers |-> Fields(n),
   eol |-> eol, body |-> body,
   buffer |-> VersionString(v) \o <<SP>> \o Decimal(U32(c)) \o <<SP, "O", "K">>
                \o CRLF \o HeaderText(Fields(n), eol) \o eol \o body]

(***************************************************************************)
(* The response state machine: the caller constructs a Response, changes   *)
(* it through its setters, and resets it.                                  *)
(***************************************************************************)
ResBuilt == phase \in {"res_new", "res_parsed", "res_changed", "res_reset"}

\* Response res{code, version};
ConstructWith ==
  /\ phase = "idle"
  /\ \E c \in Codes, v \in Versions :
       /\ res' = ResponseWith(c, v)
       /\ input' = [kind |-> "explicit", version |-> v, code |-> c]
  /\ phase' = "res_new"
  /\ UNCHANGED <<request, method_, uri_, version_, thrown, wire, again,
                 response>>

\* Response res{response};
ConstructFrom(in) ==
  \E sl \in {StatusLine(in.buffer)} :
    \E o \in {ResponseFrom(sl, DefaultLimit)} :
      /\ phase' = IF o.thrown = "none" THEN "res_parsed" ELSE "res_thrown"
      /\ input' = in
      /\ response' = sl.response
      /\ res' = o.res
      /\ thrown' = o.thrown
      /\ UNCHANGED <<request, method_, uri_, version_, wire, again>>

ConstructFromCanonical ==
  /\ phase = "idle"
  /\ \E v \in Versions, c \in Codes, n \in 0..MaxHeaders, body \in Bodies :
       ConstructFrom(ResponseInput(v, c, n, CRLF, body))

ConstructFromLenient ==
  /\ phase = "idle"
  /\ \E v \in Versions, c \in Codes, n \in 1..MaxHeaders, body \in Bodies :
       ConstructFrom(ResponseInput(v, c, n, <<LF>>, body))

\* res.set_status_code(code);
SetStatusCode ==
  /\ ResBuilt
  /\ \E c \in Codes : res' = set_status_code(res, c)
  /\ phase' = "res_changed"
  /\ UNCHANGED <<input, request, method_, uri_, version_, thrown, wire, again,
                 response>>

\* res.add_header(name, value);
AddHeader ==
  /\ ResBuilt
  /\ Len(res.headers) < MaxHeaders
  /\ res' = [res EXCEPT !.headers = Append(@, Field(Len(@) + 1))]
  /\ phase' = "res_changed"
  /\ UNCHANGED <<input, request, method_, uri_, version_, thrown, wire, again,
                 response>>

\* res.add_body(text);
AddBody ==
  /\ ResBuilt
  /\ \E b \in {<<>>, <<"h", "i">>} : res' = [res EXCEPT !.body = b]
  /\ phase' = "res_changed"
  /\ UNCHANGED <<input, request, method_, uri_, version_, thrown, wire, again,
                 response>>

\* res.reset();
Reset ==
  /\ ResBuilt
  /\ res' = reset(res)
  /\ phase' = "res_reset"
  /\ UNCHANGED <<input, request, method_, uri_, version_, thrown, wire, again,
                 response>>

NextResponse ==
  \/ ConstructWith
  \/ ConstructFromCanonical
  \/ ConstructFromLenient
  \/ SetStatusCode
  \/ AddHeader
  \/ AddBody
  \/ Reset

SpecResponse == Init /\ [][NextResponse]_vars

(***************************************************************************)
(* Properties of Request_Line                                              *)
(***************************************************************************)
Built == phase \in {"constructed", "serialized", "reparsed", "thrown"}

IsDefault(m, u, v) == m = DefaultMethod /\ u = DefaultUri /\ v = DefaultVersion

AllDigits(t) == t # <<>> /\ \A i \in 1..Len(t) : t[i] \in DigitSet

\* the input is  lead METHOD SP URI SP "HTTP/" digits "." digits ...
WellFormedVersion(in) ==
  in.kind = "line" /\ in.shaped /\ AllDigits(in.major) /\ AllDigits(in.minor)

\* the numbers a well-formed version token spells, read digit by digit
Spelled(in) == Version(DecimalValue(in.major), DecimalValue(in.minor))

\* the input is exactly one canonical line  METHOD SP URI SP HTTP/a.b CRLF
Canonical(in) ==
  /\ in.kind = "line" /\ in.shaped /\ in.crlf
  /\ in.lead = <<>> /\ in.rest = <<>>
  /\ \A i \in 1..Len(in.uri) : in.uri[i] # SP
  /\ \E a \in CanonNumbers : in.major = Decimal(U32(a))
  /\ \E b \in CanonNumbers : in.minor = Decimal(U32(b))

\* C1: a buffer shorter than 16 bytes (the empty one included) constructs,
\* without an exception, the default GET / HTTP/1.1.
C1_ShortBufferIsDefault ==
  (Built /\ Len(input.buffer) < 16)
    => (thrown = "none" /\ IsDefault(method_, uri_, version_))

C1_Witness ==
  /\ phase = "constructed"
  /\ Len(input.buffer) = 15
  /\ input.kind = "filler" /\ input.buffer[1] = "a"
  /\ IsDefault(method_, uri_, version_)

\* C2 as stated: every canonical request line parses to its own fields,
\* renders back byte for byte, and parses again to the same object.
C2_RoundTripOfEveryCanonicalLine ==
  (Built /\ Canonical(input))
    => /\ thrown = "none"
       /\ method_ = input.method /\ uri_ = input.uri
       /\ version_ = Spelled(input)
       /\ phase \in {"serialized", "reparsed"} => wire = input.buffer
       /\ phase = "reparsed" =>
            /\ again.thrown = "none"
            /\ again.method = method_ /\ again.uri = uri_
            /\ again.version = version_

\* C2 as amended: the same, for canonical request lines of at least 16 bytes.
C2_RoundTripOfCanonicalLine ==
  (Built /\ Canonical(input) /\ Len(input.buffer) >= 16)
    => /\ thrown = "none"
       /\ method_ = input.method /\ uri_ = input.uri
       /\ version_ = Spelled(input)
       /\ phase \in {"serialized", "reparsed"} => wire = input.buffer
       /\ phase = "reparsed" =>
            /\ again.thrown = "none"
            /\ again.method = method_ /\ again.uri = uri_
            /\ again.version = version_

C2_Witness ==
  /\ phase = "reparsed"
  /\ Canonical(input) /\ Len(input.buffer) >= 16
  /\ input.major = <<"1", "0">>
  /\ wire = input.buffer
  /\ again.version = Version(U32(10), DecimalValue(input.minor))

\* C3: in a line METHOD SP URI SP VERSION CRLF of at least 16 bytes the
\* method is the text before the first space, the URI everything up to the
\* last space (inner spaces included), and the version after the last space
\* parses to its major and minor numbers.
C3_LastSpaceSplit ==
  (Built /\ WellFormedVersion(input) /\ input.crlf /\ Len(input.buffer) >= 16)
    => /\ thrown = "none"
       /\ method_ = input.method
       /\ uri_ = input.uri
       /\ version_ = Spelled(input)

C3_Witness ==
  /\ phase = "constructed"
  /\ WellFormedVersion(input) /\ input.crlf /\ Len(input.buffer) >= 16
  /\ input.uri = <<"/", "a", SP, "a">>
  /\ uri_ = input.uri
  /\ version_ = DefaultVersion

\* the text begins with a decimal digit
BeginsWithDigit(t) == t # <<>> /\ t[1] \in DigitSet

\* C4 as stated: a version token whose major or minor part is not a plain
\* decimal number never constructs a Request_Line; the parse failure is
\* raised.
C4_MalformedVersionAlwaysRaises ==
  (Built /\ input.kind = "line" /\ input.shaped /\ Len(input.buffer) >= 16
     /\ ~(AllDigits(input.major) /\ AllDigits(input.minor)))
    => thrown = "invalid_argument"

\* C4 as amended: the parse failure is raised exactly when the major or the
\* minor part does not begin with a decimal digit; a part that begins with
\* digits is read up to its first other character, silently.
C4_RaisesIffNoLeadingDigit ==
  (Built /\ input.kind = "line" /\ input.shaped /\ Len(input.buffer) >= 16)
    => /\ thrown = "invalid_argument"
            <=> ~(BeginsWithDigit(input.major) /\ BeginsWithDigit(input.minor))
       /\ thrown \in {"none", "invalid_argument"}

C4_Witness ==
  /\ phase = "thrown" /\ thrown = "invalid_argument"
  /\ input.kind = "line" /\ input.shaped /\ Len(input.buffer) >= 16
  /\ input.major = <<"1">> /\ input.minor = <<"x">>

\* the buffer has no request-line structure: no space at all or blanks
\* only, or a last token with neither "/" nor "."
Unrecognizable(in) == in.kind = "filler" \/ ~in.shaped

\* C5: a buffer of 16 bytes or more without a request-line structure
\* constructs, without an exception, the default GET / HTTP/1.1.
C5_UnrecognizableIsDefault ==
  (Built /\ Len(input.buffer) >= 16 /\ Unrecognizable(input))
    => (thrown = "none" /\ IsDefault(method_, uri_, version_))

\* C6: after a successful parse of a buffer of at least 16 bytes that holds
\* a CRLF, the caller's buffer is what followed the line's CRLF.
C6_BufferIsRest ==
  (Built /\ thrown = "none" /\ input.kind = "line" /\ input.crlf
     /\ Len(input.buffer) >= 16)
    => request = input.rest

C6_Witness ==
  /\ phase = "constructed"
  /\ input.kind = "line" /\ input.crlf /\ Len(input.buffer) >= 16
  /\ input.lead = <<HT>>
  /\ input.rest = <<"b", CR, LF, "c">>
  /\ request = input.rest

\* C7: a buffer of at least 16 bytes with no CRLF is parsed as one line, and
\* the caller's buffer is empty afterwards.
C7_NoCRLFConsumesAll ==
  (Built /\ thrown = "none" /\ input.kind = "line" /\ ~input.crlf
     /\ Len(input.buffer) >= 16)
    => /\ method_ = input.method
       /\ uri_ = input.uri
       /\ request = <<>>

(***************************************************************************)
(* Properties of Response                                                  *)
(***************************************************************************)
\* a Response was just constructed from a buffer whose lines end in eol
ParsedFrom(eol) ==
  /\ phase \in {"res_parsed", "res_thrown"}
  /\ input.kind = "response"
  /\ input.eol = eol

\* C8: a response  status line CRLF, header lines, CRLF, BODY  constructs a
\* Response with the line's status code, the header fields of the input
\* and the body BODY, for any number of header fields from zero on.
C8_CanonicalResponseIsParsed ==
  ParsedFrom(CRLF)
    => /\ thrown = "none"
       /\ res.code = input.code
       /\ res.headers = input.headers
       /\ res.body = input.body

\* C9: when the header section ends in "\n\n", the body of the Response is
\* what follows that first "\n\n", whatever the body holds.
C9_LenientSeparatorIsolatesBody ==
  ParsedFrom(<<LF>>)
    => /\ thrown = "none"
       /\ res.body = input.body

\* C10: after reset() a Response equals a default constructed one: 200 OK,
\* version 1.1, no header fields, empty body.
C10_ResetIsDefault ==
  phase = "res_reset" => res = DefaultResponse

=============================================================================
